---- MODULE Spec2Model ----
(***************************************************************************)
(* Model of functions.py: three confidence-interval formulas               *)
(*   t_confidence_interval, proportion_conf_interval,                      *)
(*   diff_proportion_conf_interval.                                        *)
(*                                                                         *)
(* Floating-point numbers are modelled as fixed-point numbers with SCALE   *)
(* units per 1.0, together with a NaN flag: [nan |-> BOOLEAN, v |-> Int].  *)
(* A call either returns a triple [point, lower, upper] of such numbers or *)
(* raises a Python exception [exc |-> name].                               *)
(***************************************************************************)
EXTENDS Integers, Sequences, FiniteSets

VARIABLES fn, args, result

vars == <<fn, args, result>>

(***************************************************************************)
(* Bounds of the explored inputs.                                          *)
(***************************************************************************)
\* largest n_total / sample size explored
MaxN == 4
\* longest data sequence explored
MaxLen == 4
\* data values explored are 0..MaxVal and 10
MaxVal == 1

(***************************************************************************)
(* Floating point.                                                         *)
(***************************************************************************)
\* fixed-point units per 1.0
SCALE == 1000

F(v) == [nan |-> FALSE, v |-> v]

NaN == [nan |-> TRUE, v |-> 0]

Raise(e) == [exc |-> e]

IsRaise(r) == "exc" \in DOMAIN r

Abs(a) == IF a < 0 THEN 0 - a ELSE a

Sgn(a) == IF a < 0 THEN 0 - 1 ELSE 1

\* a / b rounded to the nearest integer (b # 0), as a float division rounds
RDiv(a, b) == Sgn(a) * Sgn(b) * ((2 * Abs(a) + Abs(b)) \div (2 * Abs(b)))

\* int -> float conversion
ToFloat(i) == F(i * SCALE)

FAdd(a, b) == IF a.nan \/ b.nan THEN NaN ELSE F(a.v + b.v)

FSub(a, b) == IF a.nan \/ b.nan THEN NaN ELSE F(a.v - b.v)

FMul(a, b) == IF a.nan \/ b.nan THEN NaN ELSE F(RDiv(a.v * b.v, SCALE))

\* IEEE comparisons: every comparison with NaN is false
FLe(a, b) == ~a.nan /\ ~b.nan /\ a.v <= b.v

FLt(a, b) == ~a.nan /\ ~b.nan /\ a.v < b.v

FEq(a, b) == ~a.nan /\ ~b.nan /\ a.v = b.v

\* "/" that warns and yields nan on a zero divisor instead of raising
TrueDiv_numpy(a, b) ==
    IF a.nan \/ b.nan \/ b.v = 0 THEN NaN ELSE F(RDiv(a.v * SCALE, b.v))

\* Python's "/" on built-in int and float operands (the types the docstrings
\* give: x_success, n_total : int; x_p : list of float; n : list of int):
\* a zero divisor raises ZeroDivisionError, for every dividend (0.0 / 0
\* included).

TrueDiv(a, b) ==
    IF b.v = 0 THEN Raise("ZeroDivisionError")
    ELSE IF a.nan \/ b.nan THEN NaN
    ELSE F(RDiv(a.v * SCALE, b.v))

\* numpy's "/" on float64 operands: nan propagates and 0.0/0.0 is nan (a
\* RuntimeWarning, no exception).  A nonzero dividend over 0.0 (inf) does not
\* occur in functions.py: a zero divisor there comes from an empty sample,
\* whose dividend is 0.0 or nan.
NpDiv(a, b) ==
    IF a.nan \/ b.nan THEN NaN
    ELSE IF b.v = 0 /\ a.v = 0 THEN NaN
    ELSE F(RDiv(a.v * SCALE, b.v))

RECURSIVE SqrtSearch(_, _, _)
SqrtSearch(a, lo, hi) ==
    IF lo >= hi THEN lo
    ELSE LET mid == (lo + hi + 1) \div 2
         IN  IF mid * mid <= a THEN SqrtSearch(a, mid, hi)
             ELSE SqrtSearch(a, lo, mid - 1)

\* largest r with r*r <= a
ISqrt(a) == SqrtSearch(a, 0, 46340)

\* np.sqrt: nan for a negative or nan argument (a RuntimeWarning, no exception)
np_sqrt(x) == IF x.nan \/ x.v < 0 THEN NaN ELSE F(ISqrt(x.v * SCALE))

(***************************************************************************)
(* scipy.stats primitives.                                                 *)
(***************************************************************************)
\* norm.ppf(q): standard-normal quantile, q in fixed point
norm_ppf(q) ==
    IF q.nan THEN NaN
    ELSE CASE q.v = 995 -> F(2576)
           [] q.v = 990 -> F(2326)
           [] q.v = 975 -> F(1960)
           [] q.v = 950 -> F(1645)
           [] q.v = 900 -> F(1282)

\* t.ppf(q, df) for q > 0.5, df = 1..8 (values in fixed point)
TTable(q) ==
    CASE q = 995 -> <<63657, 9925, 5841, 4604, 4032, 3707, 3499, 3355>>
      [] q = 975 -> <<12706, 4303, 3182, 2776, 2571, 2447, 2365, 2306>>
      [] q = 950 -> <<6314, 2920, 2353, 2132, 2015, 1943, 1895, 1860>>

\* standardised t.ppf(q, df): symmetric about 0
t_ppf(q, df) ==
    IF q.v > 500 THEN F(TTable(q.v)[df]) ELSE F(0 - TTable(SCALE - q.v)[df])

\* rv_continuous.ppf with loc and scale: nan unless the shape is valid
\* (df > 0), scale > 0 and loc is a number
t_ppf_loc_scale(q, df, loc, scale) ==
    IF df > 0 /\ FLt(F(0), scale) /\ ~loc.nan
    THEN FAdd(FMul(t_ppf(q, df), scale), loc)
    ELSE NaN

\* t.interval(confidence, df, loc, scale) = (ppf((1-c)/2), ppf((1+c)/2))
t_interval(confidence, df, loc, scale) ==
    LET q1 == F(RDiv(SCALE - confidence.v, 2))
        q2 == F(RDiv(SCALE + confidence.v, 2))
    IN  <<t_ppf_loc_scale(q1, df, loc, scale),
          t_ppf_loc_scale(q2, df, loc, scale)>>

(***************************************************************************)
(* numpy reductions.                                                       *)
(***************************************************************************)
RECURSIVE SumSeq(_)
SumSeq(s) == IF s = <<>> THEN 0 ELSE Head(s) + SumSeq(Tail(s))

\* np.mean(data): nan for an empty sample
np_mean(data) ==
    NpDiv(ToFloat(SumSeq(data)), ToFloat(Len(data)))

\* sum of squared deviations from the mean m
SqDev(data, m) ==
    LET sq == [i \in 1..Len(data) |-> FMul(FSub(ToFloat(data[i]), m),
                                           FSub(ToFloat(data[i]), m)).v]
    IN  F(SumSeq(sq))

\* np.std without Bessel's correction: divisor n
np_std_population(data, ddof) ==
    LET n == Len(data)
        m == np_mean(data)
    IN  IF m.nan THEN NaN
        ELSE np_sqrt(NpDiv(SqDev(data, m), ToFloat(n)))

\* np.std(data, ddof): divisor max(n - ddof, 0)
np_std(data, ddof) ==
    LET n == Len(data)
        m == np_mean(data)
        rcount == IF n - ddof > 0 THEN n - ddof ELSE 0
    IN  IF m.nan THEN NaN
        ELSE np_sqrt(NpDiv(SqDev(data, m), ToFloat(rcount)))

Triple(p, l, u) == [point |-> p, lower |-> l, upper |-> u]

(***************************************************************************)
(* The three functions of functions.py.                                    *)
(***************************************************************************)
\* functions.py:24-34
t_confidence_interval(data, alpha) ==
    LET n == Len(data)
        x_mean == np_mean(data)
        x_std == np_std(data, 1)
        df == n - 1
        iv == t_interval(FSub(F(SCALE), alpha), df, x_mean,
                         NpDiv(x_std, np_sqrt(ToFloat(n))))
    IN  Triple(x_mean, iv[1], iv[2])

\* functions.py:59-64 with the bounds forced into [0, 1]
proportion_conf_interval_clamped(x_success, n_total, alpha) ==
    LET p_hat == TrueDiv(ToFloat(x_success), ToFloat(n_total))
    IN  IF IsRaise(p_hat) THEN p_hat
        ELSE
        LET z_crit == norm_ppf(FSub(F(SCALE), TrueDiv(alpha, ToFloat(2))))
            se == np_sqrt(TrueDiv(FMul(p_hat, FSub(F(SCALE), p_hat)),
                                  ToFloat(n_total)))
            lower == FSub(p_hat, FMul(z_crit, se))
            upper == FAdd(p_hat, FMul(z_crit, se))
        IN  Triple(p_hat,
                   IF FLt(lower, F(0)) THEN F(0) ELSE lower,
                   IF FLt(F(SCALE), upper) THEN F(SCALE) ELSE upper)

\* functions.py:59-64 with a one-sided critical value norm.ppf(1 - alpha)
proportion_conf_interval_one_sided(x_success, n_total, alpha) ==
    LET p_hat == TrueDiv(ToFloat(x_success), ToFloat(n_total))
    IN  IF IsRaise(p_hat) THEN p_hat
        ELSE
        LET z_crit == norm_ppf(FSub(F(SCALE), alpha))
            se == np_sqrt(TrueDiv(FMul(p_hat, FSub(F(SCALE), p_hat)),
                                  ToFloat(n_total)))
            lower == FSub(p_hat, FMul(z_crit, se))
            upper == FAdd(p_hat, FMul(z_crit, se))
        IN  Triple(p_hat, lower, upper)

\* functions.py:59-64
proportion_conf_interval(x_success, n_total, alpha) ==
    LET p_hat == TrueDiv(ToFloat(x_success), ToFloat(n_total))
    IN  IF IsRaise(p_hat) THEN p_hat
        ELSE
        LET z_crit == norm_ppf(FSub(F(SCALE), TrueDiv(alpha, ToFloat(2))))
            se == np_sqrt(TrueDiv(FMul(p_hat, FSub(F(SCALE), p_hat)),
                                  ToFloat(n_total)))
            lower == FSub(p_hat, FMul(z_crit, se))
            upper == FAdd(p_hat, FMul(z_crit, se))
        IN  Triple(p_hat, lower, upper)

\* functions.py:89-95 with the sample sizes paired with the wrong proportion
diff_proportion_conf_interval_swapped(x_p, n, gamma) ==
    LET alpha == FSub(F(SCALE), gamma)
        diff == FSub(x_p[2], x_p[1])
        v0 == TrueDiv(FMul(x_p[1], FSub(F(SCALE), x_p[1])), ToFloat(n[2]))
    IN  IF IsRaise(v0) THEN v0
        ELSE
        LET v1 == TrueDiv(FMul(x_p[2], FSub(F(SCALE), x_p[2])), ToFloat(n[1]))
        IN  IF IsRaise(v1) THEN v1
            ELSE
            LET se == np_sqrt(FAdd(v0, v1))
                z_crit == norm_ppf(FSub(F(SCALE), TrueDiv(alpha, ToFloat(2))))
                lower_bound == FSub(diff, FMul(z_crit, se))
                upper_bound == FAdd(diff, FMul(z_crit, se))
            IN  Triple(diff, lower_bound, upper_bound)

\* functions.py:89-95; x_p[0], x_p[1] of the source are x_p[1], x_p[2] here
diff_proportion_conf_interval(x_p, n, gamma) ==
    LET alpha == FSub(F(SCALE), gamma)
        diff == FSub(x_p[2], x_p[1])
        v0 == TrueDiv(FMul(x_p[1], FSub(F(SCALE), x_p[1])), ToFloat(n[1]))
    IN  IF IsRaise(v0) THEN v0
        ELSE
        LET v1 == TrueDiv(FMul(x_p[2], FSub(F(SCALE), x_p[2])), ToFloat(n[2]))
        IN  IF IsRaise(v1) THEN v1
            ELSE
            LET se == np_sqrt(FAdd(v0, v1))
                z_crit == norm_ppf(FSub(F(SCALE), TrueDiv(alpha, ToFloat(2))))
                lower_bound == FSub(diff, FMul(z_crit, se))
                upper_bound == FAdd(diff, FMul(z_crit, se))
            IN  Triple(diff, lower_bound, upper_bound)

(***************************************************************************)
(* Inputs and the calls.                                                   *)
(***************************************************************************)
\* significance levels 0.01, 0.05, 0.10
Alphas == {F(10), F(50), F(100)}

\* confidence levels 0.99, 0.95, 0.90
Gammas == {F(990), F(950), F(900)}

DataVals == (0..MaxVal) \cup {10}

RECURSIVE SeqsUpTo(_)
SeqsUpTo(k) ==
    IF k = 0 THEN {<<>>}
    ELSE LET shorter == SeqsUpTo(k - 1)
         IN  shorter \cup {Append(s, d) : s \in {t \in shorter : Len(t) = k - 1},
                                          d \in DataVals}

Datas == SeqsUpTo(MaxLen)

\* proportions -0.2, 0, 0.3, 0.5, 1, 1.2
Props == {F(0 - 200), F(0), F(300), F(500), F(1000), F(1200)}

Counts == (0 - 1)..(MaxN + 1)

Sizes == (0 - 2)..MaxN

None == [kind |-> "none"]

Init ==
    /\ result = None
    /\ \/ /\ fn = "t_confidence_interval"
          /\ args \in [data : Datas, alpha : Alphas]
       \/ /\ fn = "proportion_conf_interval"
          /\ args \in [x_success : Counts, n_total : Sizes, alpha : Alphas]
       \/ /\ fn = "diff_proportion_conf_interval"
          /\ args \in [x_p : Props \X Props, n : Sizes \X Sizes, gamma : Gammas]

CallT ==
    /\ fn = "t_confidence_interval"
    /\ result = None
    /\ result' = t_confidence_interval(args.data, args.alpha)
    /\ UNCHANGED <<fn, args>>

CallProportion ==
    /\ fn = "proportion_conf_interval"
    /\ result = None
    /\ result' = proportion_conf_interval(args.x_success, args.n_total, args.alpha)
    /\ UNCHANGED <<fn, args>>

CallDiff ==
    /\ fn = "diff_proportion_conf_interval"
    /\ result = None
    /\ result' = diff_proportion_conf_interval(args.x_p, args.n, args.gamma)
    /\ UNCHANGED <<fn, args>>

Next == CallT \/ CallProportion \/ CallDiff

Spec == Init /\ [][Next]_vars

Returned == result # None /\ ~IsRaise(result)

Raised == result # None /\ IsRaise(result)

(***************************************************************************)
(* Vocabulary of the properties.                                           *)
(***************************************************************************)
IsT == fn = "t_confidence_interval" /\ result # None

IsProportion == fn = "proportion_conf_interval" /\ result # None

IsDiff == fn = "diff_proportion_conf_interval" /\ result # None

ValidT == Len(args.data) >= 2

ValidProportion ==
    args.n_total > 0 /\ 0 <= args.x_success /\ args.x_success <= args.n_total

InUnit(p) == FLe(F(0), p) /\ FLe(p, F(SCALE))

ValidDiff ==
    /\ args.n[1] > 0 /\ args.n[2] > 0
    /\ InUnit(args.x_p[1]) /\ InUnit(args.x_p[2])

ValidCall ==
    \/ IsT /\ ValidT
    \/ IsProportion /\ ValidProportion
    \/ IsDiff /\ ValidDiff

\* two-sided standard-normal critical value at significance a: the quantile
\* at 1 - a/2 (2.576, 1.960, 1.645 for a = 0.01, 0.05, 0.10)
TwoSidedZ(a) ==
    CASE a.v = 10 -> F(2576) [] a.v = 50 -> F(1960) [] a.v = 100 -> F(1645)

\* two-sided Student's-t critical value at significance a with df degrees
\* of freedom
TwoSidedT(a, df) == F(TTable(SCALE - a.v \div 2)[df])

\* centre -/+ crit * sqrt(variance)
SymmetricTriple(centre, variance, crit) ==
    LET se == np_sqrt(variance)
    IN  Triple(centre, FSub(centre, FMul(crit, se)), FAdd(centre, FMul(crit, se)))

\* x(1 - x) / m
BernoulliVar(x, m) == F(RDiv(FMul(x, FSub(F(SCALE), x)).v, m))

\* arithmetic mean of the data
Mean(data) == F(RDiv(SumSeq(data) * SCALE, Len(data)))

\* (sum of squared deviations / (n - 1)) / n: the square of s / sqrt(n)
RECURSIVE SumSqDev(_, _)
SumSqDev(data, m) ==
    IF data = <<>> THEN 0
    ELSE RDiv((Head(data) * SCALE - m) * (Head(data) * SCALE - m), SCALE)
         + SumSqDev(Tail(data), m)

BesselStd(data) ==
    np_sqrt(F(RDiv(SumSqDev(data, Mean(data).v), Len(data) - 1)))

IsConstant(data) == \A i \in 1..Len(data) : data[i] = data[1]

(***************************************************************************)
(* C1: for valid counts (n_total > 0, 0 <= x_success <= n_total)           *)
(* proportion_conf_interval returns (p, p - z*se, p + z*se) with           *)
(* p = x_success / n_total, se = sqrt(p(1-p)/n_total) and z the            *)
(* standard-normal quantile at 1 - alpha/2, the same z on both sides.      *)
(***************************************************************************)
C1_ProportionFormula ==
    (IsProportion /\ ValidProportion) =>
        LET p == F(RDiv(args.x_success * SCALE, args.n_total))
        IN  /\ Returned
            /\ result = SymmetricTriple(p, BernoulliVar(p, args.n_total),
                                        TwoSidedZ(args.alpha))

C1_Witness ==
    /\ IsProportion /\ ValidProportion /\ Returned
    /\ args.x_success = 1 /\ args.n_total = 4 /\ args.alpha = F(50)
    /\ result.point = F(250)
    /\ FLt(result.lower, result.point) /\ FLt(result.point, result.upper)

(***************************************************************************)
(* C2: for valid input diff_proportion_conf_interval returns               *)
(* (diff, diff - z*se, diff + z*se) with diff = p_B - p_A (second minus    *)
(* first), alpha = 1 - gamma, se = sqrt(p_A(1-p_A)/n_A + p_B(1-p_B)/n_B),  *)
(* each proportion paired with the size at its own index.                  *)
(***************************************************************************)
C2_DiffFormula ==
    (IsDiff /\ ValidDiff) =>
        LET pA == args.x_p[1]
            pB == args.x_p[2]
        IN  /\ Returned
            /\ result =
                 SymmetricTriple(FSub(pB, pA),
                                 FAdd(BernoulliVar(pA, args.n[1]),
                                      BernoulliVar(pB, args.n[2])),
                                 TwoSidedZ(FSub(F(SCALE), args.gamma)))

C2_Witness ==
    /\ IsDiff /\ ValidDiff /\ Returned
    /\ args.x_p = <<F(500), F(300)>> /\ args.n = <<1, 4>>
    /\ result.point = F(0 - 200)
    /\ FLt(result.lower, result.point)

(***************************************************************************)
(* C3: for n = len(data) >= 2 t_confidence_interval returns                *)
(* (m, m - q*se, m + q*se) with m the mean, s the Bessel-corrected sample  *)
(* standard deviation, se = s/sqrt(n) and q the two-sided t critical value *)
(* with n-1 degrees of freedom.                                            *)
(***************************************************************************)
C3_TFormula ==
    (IsT /\ ValidT) =>
        LET m == Mean(args.data)
            n == Len(args.data)
            se == F(RDiv(BesselStd(args.data).v * SCALE, ISqrt(n * SCALE * SCALE)))
            q == TwoSidedT(args.alpha, n - 1)
        IN  /\ Returned
            /\ result = Triple(m, FSub(m, FMul(q, se)), FAdd(m, FMul(q, se)))

(***************************************************************************)
(* C4: for every valid input of the three functions the returned triple    *)
(* satisfies lower <= point <= upper and upper - point = point - lower.    *)
(***************************************************************************)
C4_OrderedSymmetric ==
    ValidCall =>
        /\ Returned
        /\ FLe(result.lower, result.point)
        /\ FLe(result.point, result.upper)
        /\ FEq(FSub(result.upper, result.point), FSub(result.point, result.lower))

(***************************************************************************)
(* C5: on constant data with n >= 2 t_confidence_interval returns          *)
(* (m, m, m): lower = upper = mean, no NaN bound and no failure.           *)
(***************************************************************************)
C5_ConstantCollapses ==
    (IsT /\ ValidT /\ IsConstant(args.data)) =>
        /\ Returned
        /\ result = Triple(ToFloat(args.data[1]), ToFloat(args.data[1]),
                           ToFloat(args.data[1]))

(***************************************************************************)
(* C6: proportion_conf_interval fails with InvalidInput, returning no      *)
(* triple, when x_success < 0 or x_success > n_total (n_total > 0), or     *)
(* n_total < 0.                                                            *)
(***************************************************************************)
C6_InvalidCountsRejected ==
    (/\ IsProportion
     /\ \/ args.n_total > 0 /\ (args.x_success < 0 \/ args.x_success > args.n_total)
        \/ args.n_total < 0) =>
        (Raised /\ result.exc = "InvalidInput")

(***************************************************************************)
(* C7: diff_proportion_conf_interval fails with InvalidInput, returning no *)
(* triple, when a proportion is outside [0,1] or a sample size is negative.*)
(***************************************************************************)
C7_InvalidDiffRejected ==
    (/\ IsDiff
     /\ \/ ~InUnit(args.x_p[1]) \/ ~InUnit(args.x_p[2])
        \/ args.n[1] < 0 \/ args.n[2] < 0) =>
        (Raised /\ result.exc = "InvalidInput")

(***************************************************************************)
(* C8: t_confidence_interval fails with InvalidInput, returning no triple, *)
(* when the sample has fewer than 2 elements.                              *)
(***************************************************************************)
C8_SmallSampleRejected ==
    (IsT /\ Len(args.data) < 2) => (Raised /\ result.exc = "InvalidInput")

(***************************************************************************)
(* C9: a zero sample size makes the call fail with no triple returned:     *)
(* proportion_conf_interval when n_total = 0 (any x_success),              *)
(* diff_proportion_conf_interval when n_A = 0 or n_B = 0 (any proportions, *)
(* also 0 or 1, whose variance numerator is 0).                            *)
(***************************************************************************)
C9_ZeroSizeFails ==
    (\/ IsProportion /\ args.n_total = 0
     \/ IsDiff /\ (args.n[1] = 0 \/ args.n[2] = 0)) => Raised

C9_Witness ==
    /\ IsDiff /\ args.n[1] = 2 /\ args.n[2] = 0
    /\ args.x_p[1] = F(300) /\ args.x_p[2] = F(SCALE)
    /\ Raised /\ result.exc = "ZeroDivisionError"

(***************************************************************************)
(* C10: proportion_conf_interval never clamps: for valid counts both       *)
(* bounds lie exactly z*se from p, also when lower < 0 or upper > 1, and   *)
(* x_success = 0 gives p = 0 with lower <= 0.                              *)
(***************************************************************************)
C10_NoClamping ==
    (IsProportion /\ ValidProportion) =>
        LET p == F(RDiv(args.x_success * SCALE, args.n_total))
            half == FMul(TwoSidedZ(args.alpha),
                         np_sqrt(BernoulliVar(p, args.n_total)))
        IN  /\ Returned
            /\ FSub(result.point, result.lower) = half
            /\ FSub(result.upper, result.point) = half
            /\ (args.x_success = 0 =>
                    result.point = F(0) /\ FLe(result.lower, F(0)))

C10_Witness ==
    /\ IsProportion /\ ValidProportion /\ Returned
    /\ FLt(result.lower, F(0))
    /\ FLt(F(SCALE), result.upper)

====
